---- MODULE Spec2Model ----
(***************************************************************************)
(* Evidence sources of node-latency-for-k8s: the file and journal readers  *)
(* with their byte cache (pkg/sources/logreader.go), the rotation resolver *)
(* and SelectMatches (pkg/sources/sources.go), the journal source's Find   *)
(* and the K8s API source (pkg/sources/k8s/k8s.go).                        *)
(*                                                                         *)
(* Strings are sequences of one-character strings, so that substring       *)
(* search, suffix tests, lexical comparison and layout parsing are         *)
(* computed character by character as the Go code computes them.           *)
(***************************************************************************)
EXTENDS Integers, Sequences, FiniteSets, TLC

VARIABLES
    fs,       \* the filesystem: file name -> [openable, mtime, data]
    reader,   \* the LogReader / JournalReader under observation
    cluster,  \* the objects the K8s API serves
    clock,    \* time.Now().Year()
    call      \* the last completed call: its inputs and what it returned

vars == <<fs, reader, cluster, clock, call>>

\* Go's nil error
Nil == "nil"

\* Go's nil byte slice
NilBytes == [kind |-> "nil", body |-> <<>>]

-----------------------------------------------------------------------------
(* Characters and strings *)

DigitChars == <<"0", "1", "2", "3", "4", "5", "6", "7", "8", "9">>

IsDigit(c) == \E i \in 1..10 : DigitChars[i] = c

DigitVal(c) == (CHOOSE i \in 1..10 : DigitChars[i] = c) - 1

\* the characters of the model in ascending byte order
CharOrder ==
    <<" ", "*", "+", "-", ".", "0", "1", "2", "3", "4", "5", "6", "7", "8", "9",
      ":", "C", "K", "T", "a", "g", "l", "o", "x", "z">>

Code(c) == CHOOSE i \in 1..Len(CharOrder) : CharOrder[i] = c

\* Go's string comparison a < b: byte-wise, a proper prefix is smaller
RECURSIVE StrLess(_, _)
StrLess(a, b) ==
    IF b = <<>> THEN FALSE
    ELSE IF a = <<>> THEN TRUE
    ELSE IF Code(Head(a)) # Code(Head(b)) THEN Code(Head(a)) < Code(Head(b))
    ELSE StrLess(Tail(a), Tail(b))

HasPrefix(s, p) == Len(s) >= Len(p) /\ SubSeq(s, 1, Len(p)) = p

HasSuffix(s, suf) ==
    Len(s) >= Len(suf) /\ SubSeq(s, Len(s) - Len(suf) + 1, Len(s)) = suf

Contains(s, sub) ==
    \E i \in 1..(Len(s) - Len(sub) + 1) : SubSeq(s, i, i + Len(sub) - 1) = sub

\* n in decimal, w digits wide, padded with zeros (fmt "%0wd")
Pad(n, w) == [i \in 1..w |-> DigitChars[((n \div (10 ^ (w - i))) % 10) + 1]]

\* fmt.Sprint(n) for n >= 0
RECURSIVE Sprint(_)
Sprint(n) == IF n < 10 THEN <<DigitChars[n + 1]>>
             ELSE Sprint(n \div 10) \o <<DigitChars[(n % 10) + 1]>>

\* the decimal value of a string of digits
RECURSIVE Atoi(_)
Atoi(s) == IF s = <<>> THEN 0
           ELSE 10 * Atoi(SubSeq(s, 1, Len(s) - 1)) + DigitVal(s[Len(s)])

AllDigits(s) == \A i \in 1..Len(s) : IsDigit(s[i])

\* all sequences over S of length at most n
SeqsUpTo(S, n) == UNION {[1..k -> S] : k \in 0..n}

-----------------------------------------------------------------------------
(* sources.go: FindResult, the match selectors, SelectMatches *)

EventMatchSelectorFirst == "first"
EventMatchSelectorLast == "last"
EventMatchSelectorAll == "all"

FindResult(line, ts, comment, err) ==
    [Line |-> line, Timestamp |-> ts, Comment |-> comment, Err |-> err]

SelectMatchesLastIsFirst(results, matchSelector) ==
    IF Len(results) = 0 THEN <<>>
    ELSE IF matchSelector \in {EventMatchSelectorFirst, EventMatchSelectorLast}
         THEN <<results[1]>>
         ELSE results

\* SelectMatches taking a capitalised name for the selector it spells
SelectMatchesFoldCase(results, matchSelector) ==
    IF Len(results) = 0 THEN <<>>
    ELSE CASE matchSelector \in {EventMatchSelectorFirst, "First"} -> <<results[1]>>
           [] matchSelector \in {EventMatchSelectorLast, "Last"} ->
                  <<results[Len(results)]>>
           [] OTHER -> results

SelectMatches(results, matchSelector) ==
    IF Len(results) = 0 THEN <<>>
    ELSE CASE matchSelector = EventMatchSelectorFirst -> <<results[1]>>
           [] matchSelector = EventMatchSelectorLast -> <<results[Len(results)]>>
           [] matchSelector = EventMatchSelectorAll -> results
           [] OTHER -> results

-----------------------------------------------------------------------------
(* SelectMatches applied to bounded inputs *)

MaxResults == 3

\* results told apart by their line; one of them carries an error
SampleResults ==
    { FindResult(<<"K">>, 1, <<>>, Nil),
      FindResult(<<"C">>, 2, <<"C">>, Nil),
      FindResult(<<"x">>, 0, <<>>, "TimestampNotFound") }

\* the selector strings an Event may carry, the three constants and others
SelectorInputs == {"first", "last", "all", "", "First", "newest"}

Idle == [op |-> "idle"]

NoUse == "unused"

InitSelect ==
    /\ fs = NoUse /\ reader = NoUse /\ cluster = NoUse /\ clock = NoUse
    /\ call = Idle

CallSelectMatches ==
    /\ \E results \in SeqsUpTo(SampleResults, MaxResults), sel \in SelectorInputs :
         LET out == SelectMatches(results, sel) IN
         call' = [op |-> "SelectMatches", results |-> results, sel |-> sel,
                  out |-> out, again |-> SelectMatches(out, sel)]
    /\ UNCHANGED <<fs, reader, cluster, clock>>

NextSelect == CallSelectMatches

SpecSelect == InitSelect /\ [][NextSelect]_vars

\* C3: SelectMatches is total and idempotent: on N >= 1 results First returns
\* exactly <<results[0]>>, Last exactly <<results[N-1]>>, All the N results
\* unchanged in order; on an empty input every selector returns the empty
\* sequence; selecting again with the same selector changes nothing.
C3_SelectMatchesTotalIdempotent ==
    call.op = "SelectMatches" =>
        LET r == call.results
            n == Len(call.results)
        IN /\ (n = 0 => call.out = <<>>)
           /\ (n >= 1 /\ call.sel = "first" => call.out = <<r[1]>>)
           /\ (n >= 1 /\ call.sel = "last" => call.out = <<r[n]>>)
           /\ (call.sel = "all" => call.out = r)
           /\ call.again = call.out

C3_Witness ==
    /\ call.op = "SelectMatches"
    /\ call.sel = "last"
    /\ Len(call.results) = 3
    /\ call.results[1] # call.results[3]
    /\ call.out = <<call.results[3]>>

-----------------------------------------------------------------------------
(* time.Time, time.Parse and regexp.FindString, as ParseTimestamp uses them *)

\* time.Time: a wall clock reading and its zone offset in seconds east of UTC
Time(y, mo, d, h, mi, s, off) ==
    [year |-> y, month |-> mo, day |-> d, hour |-> h, min |-> mi, sec |-> s,
     off |-> off]

\* time.Time{}: January 1, year 1, 00:00:00 UTC
ZeroTime == Time(1, 1, 1, 0, 0, 0, 0)

IsLeap(y) == y % 4 = 0 /\ (y % 100 # 0 \/ y % 400 = 0)

DaysIn(mo, y) ==
    IF mo = 2 THEN (IF IsLeap(y) THEN 29 ELSE 28)
    ELSE IF mo \in {4, 6, 9, 11} THEN 30 ELSE 31

\* days from 1970-01-01 to the civil date y-mo-d
DaysFromCivil(y, mo, d) ==
    LET yy == IF mo <= 2 THEN y - 1 ELSE y
        era == yy \div 400
        yoe == yy - era * 400
        mp == IF mo > 2 THEN mo - 3 ELSE mo + 9
        doy == ((153 * mp + 2) \div 5) + d - 1
        doe == yoe * 365 + (yoe \div 4) - (yoe \div 100) + doy
    IN era * 146097 + doe - 719468

SecOfDay(t) == t.hour * 3600 + t.min * 60 + t.sec

\* t.UnixMicro() as the pair <<days since the epoch, second of that day>> of
\* the instant in UTC: the layouts have second resolution, and the pair keeps
\* the value of the zero Time inside the integers of the model checker
UnixMicro(t) ==
    <<DaysFromCivil(t.year, t.month, t.day) + ((SecOfDay(t) - t.off) \div 86400),
      (SecOfDay(t) - t.off) % 86400>>

\* a.UnixMicro() < b.UnixMicro()
UnixMicroLess(a, b) ==
    \/ UnixMicro(a)[1] < UnixMicro(b)[1]
    \/ UnixMicro(a)[1] = UnixMicro(b)[1] /\ UnixMicro(a)[2] < UnixMicro(b)[2]

\* A regular expression is a sequence of items: "d" is [0-9], "s+" is a run of
\* one or more spaces, any other item is that literal character.  MatchLen is
\* the length of the match of re at the start of s, or -1.
RECURSIVE MatchLen(_, _)
MatchLen(re, s) ==
    IF re = <<>> THEN 0
    ELSE IF s = <<>> THEN -1
    ELSE IF Head(re) = "s+" THEN
        IF Head(s) # " " THEN -1
        ELSE LET run == CHOOSE k \in 1..Len(s) :
                            /\ \A i \in 1..k : s[i] = " "
                            /\ (k = Len(s) \/ s[k + 1] # " ")
                 rest == MatchLen(Tail(re), SubSeq(s, run + 1, Len(s)))
             IN IF rest < 0 THEN -1 ELSE run + rest
    ELSE IF (Head(re) = "d" /\ IsDigit(Head(s))) \/ (Head(re) # "d" /\ Head(re) = Head(s))
         THEN LET rest == MatchLen(Tail(re), Tail(s))
              IN IF rest < 0 THEN -1 ELSE 1 + rest
         ELSE -1

\* re.FindString(s): the leftmost match, "" when there is none
FindString(re, s) ==
    IF \E i \in 1..Len(s) : MatchLen(re, SubSeq(s, i, Len(s))) >= 0
    THEN LET i == CHOOSE k \in 1..Len(s) :
                      /\ MatchLen(re, SubSeq(s, k, Len(s))) >= 0
                      /\ \A j \in 1..(k - 1) : MatchLen(re, SubSeq(s, j, Len(s))) < 0
         IN SubSeq(s, i, i + MatchLen(re, SubSeq(s, i, Len(s))) - 1)
    ELSE <<>>

\* spaceRE.ReplaceAllString(s, " "): every run of white space becomes one space
RECURSIVE CollapseSpaces(_)
CollapseSpaces(s) ==
    IF s = <<>> THEN <<>>
    ELSE IF Head(s) = " " /\ Len(s) >= 2 /\ s[2] = " " THEN CollapseSpaces(Tail(s))
    ELSE <<Head(s)>> \o CollapseSpaces(Tail(s))

ParseFail == [ok |-> FALSE, t |-> ZeroTime]

\* time.Parse(layout, value) from the point where the fields in t are read:
\* the layout is consumed chunk by chunk ("2006", "01", "02", "15", "04", "05",
\* "-0700", any other character a literal), each chunk takes its characters
\* from value, and characters left over at the end are "extra text"
RECURSIVE ParseFrom(_, _, _)
ParseFrom(layout, value, t) ==
    IF layout = <<>> THEN
        IF value # <<>> THEN ParseFail
        ELSE IF t.day < 1 \/ t.day > DaysIn(t.month, t.year) THEN ParseFail
        ELSE [ok |-> TRUE, t |-> t]
    ELSE IF HasPrefix(layout, <<"2", "0", "0", "6">>) THEN
        IF Len(value) < 4 \/ ~AllDigits(SubSeq(value, 1, 4)) THEN ParseFail
        ELSE ParseFrom(SubSeq(layout, 5, Len(layout)), SubSeq(value, 5, Len(value)),
                       [t EXCEPT !.year = Atoi(SubSeq(value, 1, 4))])
    ELSE IF HasPrefix(layout, <<"-", "0", "7", "0", "0">>) THEN
        IF Len(value) < 5 \/ value[1] \notin {"+", "-"} \/ ~AllDigits(SubSeq(value, 2, 5))
        THEN ParseFail
        ELSE LET hh == Atoi(SubSeq(value, 2, 3))
                 mm == Atoi(SubSeq(value, 4, 5))
                 secs == hh * 3600 + mm * 60
             IN IF hh > 24 \/ mm > 60 THEN ParseFail
                ELSE ParseFrom(SubSeq(layout, 6, Len(layout)), SubSeq(value, 6, Len(value)),
                               [t EXCEPT !.off = IF value[1] = "+" THEN secs ELSE 0 - secs])
    ELSE IF \E c \in {<<"0", "1">>, <<"0", "2">>, <<"0", "4">>, <<"0", "5">>, <<"1", "5">>} :
                HasPrefix(layout, c) THEN
        LET chunk == SubSeq(layout, 1, 2)
            \* "15" takes one or two digits, the others exactly two
            width == IF Len(value) >= 2 /\ IsDigit(value[2]) THEN 2
                     ELSE IF chunk = <<"1", "5">> THEN 1 ELSE 0
        IN IF value = <<>> \/ ~IsDigit(value[1]) \/ width = 0 THEN ParseFail
           ELSE LET n == Atoi(SubSeq(value, 1, width))
                    restL == SubSeq(layout, 3, Len(layout))
                    restV == SubSeq(value, width + 1, Len(value))
                IN CASE chunk = <<"0", "1">> ->
                            IF n < 1 \/ n > 12 THEN ParseFail
                            ELSE ParseFrom(restL, restV, [t EXCEPT !.month = n])
                     [] chunk = <<"0", "2">> ->
                            ParseFrom(restL, restV, [t EXCEPT !.day = n])
                     [] chunk = <<"1", "5">> ->
                            IF n >= 24 THEN ParseFail
                            ELSE ParseFrom(restL, restV, [t EXCEPT !.hour = n])
                     [] chunk = <<"0", "4">> ->
                            IF n >= 60 THEN ParseFail
                            ELSE ParseFrom(restL, restV, [t EXCEPT !.min = n])
                     [] chunk = <<"0", "5">> ->
                            IF n >= 60 THEN ParseFail
                            ELSE ParseFrom(restL, restV, [t EXCEPT !.sec = n])
    ELSE IF value = <<>> \/ Head(value) # Head(layout) THEN ParseFail
    ELSE ParseFrom(Tail(layout), Tail(value), t)

\* time.Parse(layout, value): fields the layout does not set keep the values
\* of January 1 of year 0, 00:00:00 UTC
TimeParse(layout, value) == ParseFrom(layout, value, Time(0, 1, 1, 0, 0, 0, 0))

-----------------------------------------------------------------------------
(* The filesystem, filepath.Glob, and the rotation resolver of sources.go *)

\* A modification time: whole seconds and the nanoseconds within the second
Mtime(sec, nsec) == [sec |-> sec, nsec |-> nsec]

\* t.ModTime().Unix(): the whole seconds
ModTimeUnix(file) == file.mtime.sec

MtimeBefore(a, b) == a.sec < b.sec \/ (a.sec = b.sec /\ a.nsec < b.nsec)

\* the names of the files of the log directory, and the pattern over them
LogName == <<"a", ".", "l", "o", "g">>
RotatedName == <<"a", ".", "l", "o", "g", ".", "1">>
RotatedGzName == <<"a", ".", "l", "o", "g", ".", "2", ".", "g", "z">>
GlobPath == <<"a", ".", "l", "o", "g", "*">>

\* the files that exist in f
Exists(f) == DOMAIN f

\* os.Open(name) succeeds
CanOpen(f, name) == name \in Exists(f) /\ f[name].openable

\* name matches pattern: a trailing * matches any rest, otherwise the names
\* must be equal
GlobMatch(pattern, name) ==
    IF pattern # <<>> /\ pattern[Len(pattern)] = "*"
    THEN HasPrefix(name, SubSeq(pattern, 1, Len(pattern) - 1))
    ELSE name = pattern

\* the names of S in ascending lexical order
RECURSIVE SortedNames(_)
SortedNames(S) ==
    IF S = {} THEN <<>>
    ELSE LET least == CHOOSE n \in S : \A m \in S \ {n} : StrLess(n, m)
         IN <<least>> \o SortedNames(S \ {least})

\* filepath.Glob(globPath): the matching names, sorted
Glob(f, globPath) == SortedNames({n \in Exists(f) : GlobMatch(globPath, n)})

\* the less function of sortedAscLogFiles comparing the names a and b: by
\* ModTime().Unix() when both files open (and stat), else by name
LessLogFile(f, a, b) ==
    IF ~CanOpen(f, a) THEN StrLess(a, b)
    ELSE IF ~CanOpen(f, b) THEN StrLess(a, b)
    ELSE ModTimeUnix(f[a]) < ModTimeUnix(f[b])

Swap(s, i, j) == [s EXCEPT ![i] = s[j], ![j] = s[i]]

\* sort.Slice on a slice of at most 12 elements is an insertion sort:
\* for i := 1; i < n; i++ { for j := i; j > 0 && less(j, j-1); j-- { swap } }
RECURSIVE SinkLogFile(_, _, _)
SinkLogFile(f, s, j) ==
    IF j > 1 /\ LessLogFile(f, s[j], s[j - 1])
    THEN SinkLogFile(f, Swap(s, j, j - 1), j - 1)
    ELSE s

RECURSIVE SortLogFilesFrom(_, _, _)
SortLogFilesFrom(f, s, i) ==
    IF i > Len(s) THEN s ELSE SortLogFilesFrom(f, SinkLogFile(f, s, i), i + 1)

sortedAscLogFiles(f, globPath) == SortLogFilesFrom(f, Glob(f, globPath), 2)

\* "" is the empty path
resolveOldestLogFile(f, globPath) ==
    LET logFiles == sortedAscLogFiles(f, globPath)
    IN IF Len(logFiles) = 0 THEN <<>> ELSE logFiles[1]

resolveNewestLogFile(f, globPath) ==
    LET logFiles == sortedAscLogFiles(f, globPath)
    IN IF Len(logFiles) = 0 THEN <<>> ELSE logFiles[Len(logFiles)]

-----------------------------------------------------------------------------
(* The rotation resolver applied to bounded directories *)

MaxSec == 1

\* two instants within each second
Mtimes == {Mtime(sec, nsec) : sec \in 0..MaxSec, nsec \in {100, 600}}

NoData == [kind |-> "text", body |-> <<>>]

\* every directory over the names in which each file is absent, or present
\* with some modification time, readable or not
Directories(names) ==
    UNION {[present -> [openable : BOOLEAN, mtime : Mtimes, data : {NoData}]] :
           present \in SUBSET names}

InitResolve ==
    /\ reader = NoUse /\ cluster = NoUse /\ clock = NoUse
    /\ fs \in Directories({LogName, RotatedName, RotatedGzName})
    /\ call = [op |-> "glob", globPath |-> GlobPath]

CallResolve ==
    /\ call.op = "glob"
    /\ call' = [op |-> "resolve", globPath |-> call.globPath,
                oldest |-> resolveOldestLogFile(fs, call.globPath),
                newest |-> resolveNewestLogFile(fs, call.globPath)]
    /\ UNCHANGED <<fs, reader, cluster, clock>>

NextResolve == CallResolve

SpecResolve == InitResolve /\ [][NextResolve]_vars

DistinctMtimes(f, names) ==
    \A a, b \in names : a # b => f[a].mtime # f[b].mtime

\* C5: for any non-empty glob expansion whose files all have distinct
\* modification times, resolveOldestLogFile returns the file with the minimum
\* modification time and resolveNewestLogFile the file with the maximum,
\* whatever the lexical order of the names.
C5_OldestNewestByMtime ==
    LET names == {n \in Exists(fs) : GlobMatch(GlobPath, n)} IN
    (call.op = "resolve" /\ names # {} /\ DistinctMtimes(fs, names)) =>
        /\ call.oldest \in names
        /\ \A n \in names \ {call.oldest} :
               MtimeBefore(fs[call.oldest].mtime, fs[n].mtime)
        /\ call.newest \in names
        /\ \A n \in names \ {call.newest} :
               MtimeBefore(fs[n].mtime, fs[call.newest].mtime)

-----------------------------------------------------------------------------
(* logreader.go: the readers' configuration and ParseTimestamp *)

\* journal.TimestampFormat:
\* [0-9]{4}\-[0-9]{2}\-[0-9]{2}T[0-9]{2}:[0-9]{2}:[0-9]{2}\+[0-9]{4}
JournalTimestampFormat ==
    <<"d", "d", "d", "d", "-", "d", "d", "-", "d", "d", "T", "d", "d", ":", "d", "d", ":", "d", "d", "+", "d", "d", "d", "d">>

\* journal.TimestampLayout: "2006-01-02T15:04:05-0700"
JournalTimestampLayout ==
    <<"2", "0", "0", "6", "-", "0", "1", "-", "0", "2", "T", "1", "5", ":", "0", "4", ":", "0", "5", "-", "0", "7", "0", "0">>

DefaultPath == <<"a", ".", "l", "o", "g">>

\* journal.New(path): the JournalReader of the journal source
NewJournalReader(path) ==
    [kind |-> "journal", Path |-> path, Glob |-> TRUE,
     TimestampRegex |-> JournalTimestampFormat,
     TimestampLayout |-> JournalTimestampLayout, file |-> NilBytes]

\* A LogReader is configured by its owner.  This one reads lines stamped
\* without a year, [0-9]{2}\-[0-9]{2}[ ]+[0-9]{2}:[0-9]{2}:[0-9]{2}, with the
\* layout "01-02 15:04:05 2006" that takes the year at the end.
YearlessTimestampFormat ==
    <<"d", "d", "-", "d", "d", "s+", "d", "d", ":", "d", "d", ":", "d", "d">>

YearlessTimestampLayout ==
    <<"0", "1", "-", "0", "2", " ", "1", "5", ":", "0", "4", ":", "0", "5", " ", "2", "0", "0", "6">>

NewLogReader(path, glob) ==
    [kind |-> "log", Path |-> path, Glob |-> glob,
     TimestampRegex |-> YearlessTimestampFormat,
     TimestampLayout |-> YearlessTimestampLayout, file |-> NilBytes]

\* the suffix ParseTimestamp appends: " <year>" unless rawTS contains the year

YearSuffix(rawTS, now) ==
    IF ~Contains(rawTS, Sprint(now)) THEN <<" ">> \o Sprint(now) ELSE <<>>

\* LogReader.ParseTimestamp and JournalReader.ParseTimestamp (the same code);
\* now is time.Now().Year().  The locals rawTS and suffix are kept in the
\* result next to the returned (ts, err).
ParseTimestamp(l, line, now) ==
    LET found == FindString(l.TimestampRegex, line) IN
    IF found = <<>>
    THEN [rawTS |-> <<>>, suffix |-> <<>>, ts |-> ZeroTime, err |-> "TimestampNotFound"]
    ELSE LET rawTS == CollapseSpaces(found)
             suffix == YearSuffix(rawTS, now)
             parsed == TimeParse(l.TimestampLayout, rawTS \o suffix)
         IN IF ~parsed.ok
            THEN [rawTS |-> rawTS, suffix |-> suffix, ts |-> ZeroTime,
                  err |-> "TimestampParseError"]
            ELSE [rawTS |-> rawTS, suffix |-> suffix, ts |-> parsed.t, err |-> Nil]

-----------------------------------------------------------------------------
(* Log lines *)

\* A line as a journal export writes it: the stamp with its year and zone,
\* a space, and the text (tz is the zone as the digits hhmm, east of UTC).
JournalLine(y, mo, d, h, mi, s, tz, text) ==
    Pad(y, 4) \o <<"-">> \o Pad(mo, 2) \o <<"-">> \o Pad(d, 2) \o <<"T">>
    \o Pad(h, 2) \o <<":">> \o Pad(mi, 2) \o <<":">> \o Pad(s, 2)
    \o <<"+">> \o Pad(tz, 4) \o <<" ">> \o text

\* A line stamped without a year; gap is the number of spaces after the day.
YearlessLine(mo, d, gap, h, mi, s, text) ==
    Pad(mo, 2) \o <<"-">> \o Pad(d, 2) \o [i \in 1..gap |-> " "]
    \o Pad(h, 2) \o <<":">> \o Pad(mi, 2) \o <<":">> \o Pad(s, 2)
    \o <<" ">> \o text

Years == {2025, 2026}

\* the fields the sample lines are written with, and the line of each
StampInputs ==
    [year : Years, month : {1, 12}, day : {2, 31}, hour : {3, 20},
     min : {26}, sec : {5}, tz : {0, 100, 2026}, gap : {1, 2}]

JournalLineOf(f, text) ==
    JournalLine(f.year, f.month, f.day, f.hour, f.min, f.sec, f.tz, text)

YearlessLineOf(f, text) ==
    YearlessLine(f.month, f.day, f.gap, f.hour, f.min, f.sec, text)

-----------------------------------------------------------------------------
(* ParseTimestamp applied to bounded inputs *)

\* the line a reader of this kind is given for the fields f
SampleLine(kind, f, stamped) ==
    IF ~stamped THEN <<"K">>
    ELSE IF kind = "journal" THEN JournalLineOf(f, <<"K">>)
    ELSE YearlessLineOf(f, <<"K">>)

InitParse ==
    /\ fs = NoUse /\ cluster = NoUse
    /\ reader \in {NewJournalReader(DefaultPath), NewLogReader(DefaultPath, FALSE)}
    /\ clock \in Years
    /\ \E f \in StampInputs, stamped \in BOOLEAN :
         /\ f.year <= clock   \* evidence is not written in the future
         /\ call = [op |-> "line", fields |-> f, stamped |-> stamped,
                    line |-> SampleLine(reader.kind, f, stamped)]

\* a call of ParseTimestamp on the line drawn, which was written with the
\* fields call.fields or carries no stamp
CallParseTimestamp ==
    /\ call.op = "line"
    /\ LET r == ParseTimestamp(reader, call.line, clock)
       IN call' = [op |-> "ParseTimestamp", line |-> call.line,
                   stamped |-> call.stamped, fields |-> call.fields,
                   rawTS |-> r.rawTS, suffix |-> r.suffix,
                   ts |-> r.ts, err |-> r.err]
    /\ UNCHANGED <<fs, reader, cluster, clock>>

NextParse == CallParseTimestamp

SpecParse == InitParse /\ [][NextParse]_vars

\* the month, day and time of day of ts are those the line was written with
SameMonthDayTime(ts, f) ==
    /\ ts.month = f.month /\ ts.day = f.day
    /\ ts.hour = f.hour /\ ts.min = f.min /\ ts.sec = f.sec

\* C10: for every line whose raw timestamp substring does not contain the
\* current year's digits, ParseTimestamp appends the current year and returns
\* a timestamp in the current year with the extracted month, day and time of
\* day; when the substring contains the current year's digits nothing is
\* appended.
C10_YearReconstructed ==
    (call.op = "ParseTimestamp" /\ call.rawTS # <<>>) =>
        IF ~Contains(call.rawTS, Sprint(clock))
        THEN /\ call.suffix = <<" ">> \o Sprint(clock)
             /\ call.err = Nil
             /\ call.ts.year = clock
             /\ SameMonthDayTime(call.ts, call.fields)
        ELSE call.suffix = <<>>

-----------------------------------------------------------------------------
(* logreader.go: Read and ClearCache of the two readers *)

\* File content is [kind, body]: body is the sequence of lines the content
\* stands for, kind is how they are stored: "text" as they are, "gzip"
\* compressed, "journal" in the binary journal format.  The bytes Read returns
\* are such a record too; reading a compressed file without decompression
\* returns the compressed bytes.
Data(kind, body) == [kind |-> kind, body |-> body]

GzSuffix == <<".", "g", "z">>

\* gzip.NewReader(file) followed by reading: the header must be a gzip header
Gunzip(data) ==
    IF data.kind = "gzip" THEN [ok |-> TRUE, bytes |-> Data("text", data.body)]
    ELSE [ok |-> FALSE, bytes |-> NilBytes]

\* journal.Read(path): the decoder's text output of a journal file
JournalRead(data) ==
    IF data.kind = "journal" THEN [ok |-> TRUE, bytes |-> Data("text", data.body)]
    ELSE [ok |-> FALSE, bytes |-> NilBytes]

\* A read error of the underlying stream: none, or one after `after` lines
NoFault == [fails |-> FALSE, after |-> 0]
FaultAfter(k) == [fails |-> TRUE, after |-> k]

\* io.ReadAll(reader): all the bytes, or on a read error the bytes read so far
\* and the error
ReadAll(bytes, fault) ==
    IF ~fault.fails THEN [ok |-> TRUE, bytes |-> bytes]
    ELSE [ok |-> FALSE,
          bytes |-> Data(bytes.kind,
                         SubSeq(bytes.body, 1,
                                IF fault.after < Len(bytes.body) THEN fault.after
                                ELSE Len(bytes.body)))]

\* what Read leaves and returns: the cache, the bytes, the error, and the
\* local resolvedPath
ReadResult(file, ret, err, path) ==
    [file |-> file, ret |-> ret, err |-> err, path |-> path, hit |-> FALSE]

\* Read answered from the cache: nothing is resolved
CachedResult(l) ==
    [file |-> l.file, ret |-> l.file, err |-> Nil, path |-> <<>>, hit |-> TRUE]

\* the stream LogReader.Read reads from an opened file
LogStream(path, data) ==
    IF HasSuffix(path, GzSuffix) THEN Gunzip(data) ELSE [ok |-> TRUE, bytes |-> data]

\* io.ReadAll failed: the bytes read so far are returned with the error,
\* here also stored in the cache
ReadFailedCachingPartial(bytes, path) == ReadResult(bytes, bytes, "read", path)

\* io.ReadAll failed: the bytes read so far are returned with the error and
\* the cache is left empty
ReadFailed(bytes, path) == ReadResult(NilBytes, bytes, "read", path)

\* LogReader.Read past the cache test: resolve, open, decompress, read, cache
LogReaderAcquire(l, f, fault) ==
    LET resolvedPath == IF l.Glob THEN resolveOldestLogFile(f, l.Path) ELSE l.Path IN
    IF ~CanOpen(f, resolvedPath) THEN ReadResult(NilBytes, NilBytes, "open", resolvedPath)
    ELSE LET stream == LogStream(resolvedPath, f[resolvedPath].data) IN
         IF ~stream.ok THEN ReadResult(NilBytes, NilBytes, "gzip", resolvedPath)
         ELSE LET all == ReadAll(stream.bytes, fault) IN
              IF ~all.ok THEN ReadFailed(all.bytes, resolvedPath)
              ELSE ReadResult(all.bytes, all.bytes, Nil, resolvedPath)

\* Read that goes to the file even when the cache is populated
LogReaderReadUncached(l, f, fault) == LogReaderAcquire(l, f, fault)

\* LogReader.Read
LogReaderRead(l, f, fault) ==
    IF l.file # NilBytes THEN CachedResult(l)
    ELSE LogReaderAcquire(l, f, fault)

\* JournalReader.Read past the cache test: resolve, decode, read, cache
JournalReaderAcquire(l, f, fault) ==
    LET resolvedPath == IF l.Glob THEN resolveNewestLogFile(f, l.Path) ELSE l.Path IN
    IF ~CanOpen(f, resolvedPath) THEN ReadResult(NilBytes, NilBytes, "journal", resolvedPath)
    ELSE LET stream == JournalRead(f[resolvedPath].data) IN
         IF ~stream.ok THEN ReadResult(NilBytes, NilBytes, "journal", resolvedPath)
         ELSE LET all == ReadAll(stream.bytes, fault) IN
              IF ~all.ok THEN ReadFailed(all.bytes, resolvedPath)
              ELSE ReadResult(all.bytes, all.bytes, Nil, resolvedPath)

\* JournalReader.Read
JournalReaderRead(l, f, fault) ==
    IF l.file # NilBytes THEN CachedResult(l)
    ELSE JournalReaderAcquire(l, f, fault)

ReaderRead(l, f, fault) ==
    IF l.kind = "journal" THEN JournalReaderRead(l, f, fault)
    ELSE LogReaderRead(l, f, fault)

\* LogReader.ClearCache / JournalReader.ClearCache
ClearCacheOf(l) == [l EXCEPT !.file = NilBytes]

-----------------------------------------------------------------------------
(* A reader over a directory that changes under it *)

\* the contents files are written with
SampleData ==
    { Data("text", <<<<"K">>>>), Data("text", <<<<"K">>, <<"C">>>>),
      Data("gzip", <<<<"K">>>>), Data("journal", <<<<"C">>>>) }

\* read errors: none, or after that many lines
Faults == {NoFault, FaultAfter(0), FaultAfter(1)}

ReaderNames == {LogName, RotatedGzName}

FileStates == [openable : BOOLEAN, mtime : {Mtime(sec, 100) : sec \in 0..MaxSec},
               data : SampleData]

InitReader ==
    /\ cluster = NoUse /\ clock = NoUse
    /\ fs = [n \in {LogName} |-> [openable |-> TRUE, mtime |-> Mtime(0, 100),
                                  data |-> Data("text", <<<<"K">>>>)]]
    /\ reader \in {NewJournalReader(GlobPath), NewLogReader(GlobPath, TRUE),
                   NewLogReader(LogName, FALSE), NewLogReader(RotatedGzName, FALSE)}
    /\ call = Idle

\* l.Read()
Read ==
    /\ \E fault \in Faults :
         LET r == ReaderRead(reader, fs, fault) IN
         /\ reader' = [reader EXCEPT !.file = r.file]
         /\ call' = [op |-> "Read", ret |-> r.ret, err |-> r.err, path |-> r.path,
                     hit |-> r.hit, fault |-> fault]
    /\ UNCHANGED <<fs, cluster, clock>>

\* l.ClearCache()
ClearCache ==
    /\ reader' = ClearCacheOf(reader)
    /\ call' = [op |-> "ClearCache"]
    /\ UNCHANGED <<fs, cluster, clock>>

Env == [op |-> "env"]

\* another process writes a file, creating it if need be
WriteFile ==
    /\ \E n \in ReaderNames, st \in FileStates :
         fs' = [m \in Exists(fs) \cup {n} |-> IF m = n THEN st ELSE fs[m]]
    /\ call' = Env
    /\ UNCHANGED <<reader, cluster, clock>>

\* another process removes a file
RemoveFile ==
    /\ \E n \in Exists(fs) : fs' = [m \in Exists(fs) \ {n} |-> fs[m]]
    /\ call' = Env
    /\ UNCHANGED <<reader, cluster, clock>>

\* log rotation: the live file is compressed into the rotated name and
\* starts again empty
Rotate ==
    /\ LogName \in Exists(fs)
    /\ fs' = [m \in Exists(fs) \cup {RotatedGzName} |->
                IF m = RotatedGzName
                THEN [fs[LogName] EXCEPT !.data = Data("gzip", fs[LogName].data.body)]
                ELSE IF m = LogName
                THEN [fs[LogName] EXCEPT !.data = Data(fs[LogName].data.kind, <<>>),
                                         !.mtime = Mtime(MaxSec, 100)]
                ELSE fs[m]]
    /\ call' = Env
    /\ UNCHANGED <<reader, cluster, clock>>

NextReader == Read \/ ClearCache \/ WriteFile \/ RemoveFile \/ Rotate

SpecReader == InitReader /\ [][NextReader]_vars

\* the bytes reader l gets from the file at path when nothing fails
Content(l, f, path) ==
    IF l.kind = "journal" \/ HasSuffix(path, GzSuffix)
    THEN Data("text", f[path].data.body)
    ELSE f[path].data

\* the file at path can be acquired by reader l
Readable(l, f, path) ==
    /\ path \in Exists(f) /\ f[path].openable
    /\ l.kind = "journal" => f[path].data.kind = "journal"
    /\ (l.kind = "log" /\ HasSuffix(path, GzSuffix)) => f[path].data.kind = "gzip"

\* C1: after a successful Read, every later Read with no ClearCache in between
\* returns the same bytes, whatever happens to the files in between; after
\* ClearCache the next successful Read returns the content the resolved file
\* has at the time of that Read.
\*   - a populated cache is changed by no step but ClearCache;
\*   - a Read on a populated cache succeeds and returns the cached bytes;
\*   - a successful Read on an empty cache returns, and caches, the content
\*     of the file it resolved.
C1_CachedUntilCleared ==
    [][ /\ (reader.file # NilBytes /\ call'.op # "ClearCache") =>
               reader'.file = reader.file
        /\ (reader.file # NilBytes /\ call'.op = "Read") =>
               (call'.err = Nil /\ call'.ret = reader.file)
        /\ (call'.op = "ClearCache") => reader'.file = NilBytes
        /\ (reader.file = NilBytes /\ call'.op = "Read" /\ call'.err = Nil) =>
               /\ call'.ret = Content(reader, fs', call'.path)
               /\ reader'.file = call'.ret
      ]_vars

\* a Read answered from the cache although the file it came from has changed
C1_Witness ==
    /\ call.op = "Read" /\ call.err = Nil /\ call.hit
    /\ reader.kind = "log" /\ ~reader.Glob /\ reader.Path = LogName
    /\ LogName \in Exists(fs)
    /\ fs[LogName].data # call.ret

\* C2: when Read fails (open, gzip header, journal decoder, or a read error
\* part-way), the cache stays empty and nothing read so far is cached, so the
\* next Read resolves and acquires again and succeeds if the file is readable
\* by then.
\*   - a failed Read started from an empty cache and leaves it empty;
\*   - a Read on an empty cache fails only if the file it resolves cannot be
\*     acquired now, or this read itself hits a read error.
C2_FailureNotCached ==
    [][ /\ (call'.op = "Read" /\ call'.err # Nil) =>
               (reader.file = NilBytes /\ reader'.file = NilBytes)
        /\ (call'.op = "Read" /\ reader.file = NilBytes /\ ~call'.fault.fails
              /\ Readable(reader, fs', call'.path)) => call'.err = Nil
      ]_vars

\* a read error part-way: bytes were returned with the error and the cache
\* is empty
C2_Witness ==
    /\ call.op = "Read" /\ call.err = "read"
    /\ Len(call.ret.body) = 1
    /\ reader.file = NilBytes

-----------------------------------------------------------------------------
(* logreader.go: JournalReader.Find and the journal source's Find *)

\* An Event's regular expression is .*c.* for a character c: it matches every
\* line that contains c, and a match is the whole line.
LineRegex(c) == [contains |-> c]

\* re.FindAll(messages, -1): the matches in the order of their position
RECURSIVE FindAll(_, _)
FindAll(re, lines) ==
    IF lines = <<>> THEN <<>>
    ELSE (IF \E i \in 1..Len(Head(lines)) : Head(lines)[i] = re.contains
          THEN <<Head(lines)>> ELSE <<>>)
         \o FindAll(re, Tail(lines))

\* the lines of the bytes Read returned (raw compressed or binary bytes hold
\* no line a regular expression written for text matches)
LinesOf(bytes) == IF bytes.kind = "text" THEN bytes.body ELSE <<>>

\* Find that reports no error when nothing matches
JournalReaderFindSilent(l, f, fault, re) ==
    LET r == JournalReaderRead(l, f, fault) IN
    IF r.err # Nil THEN [file |-> r.file, lines |-> <<>>, err |-> r.err]
    ELSE [file |-> r.file, lines |-> FindAll(re, LinesOf(r.ret)), err |-> Nil]

\* JournalReader.Find past Read: the no-match test on the lines re matches
ReaderFindIn(r, re) ==
    IF r.err # Nil THEN [file |-> r.file, lines |-> <<>>, err |-> r.err]
    ELSE LET lines == FindAll(re, LinesOf(r.ret)) IN
         IF Len(lines) = 0 THEN [file |-> r.file, lines |-> <<>>, err |-> "NoMatch"]
         ELSE [file |-> r.file, lines |-> lines, err |-> Nil]

\* JournalReader.Find(re): the cache after the call, the matched lines, the error
JournalReaderFind(l, f, fault, re) == ReaderFindIn(JournalReaderRead(l, f, fault), re)

\* sources.CommentMatchedLine(), or no CommentFn
Comment(commentFn, line) == IF commentFn = "CommentMatchedLine" THEN line ELSE <<>>

\* the year the journal is read in
ThisYear == CHOOSE y \in Years : \A z \in Years : z <= y

Stamp(y, mo, d, h, tz) ==
    [year |-> y, month |-> mo, day |-> d, hour |-> h, min |-> 26, sec |-> 5,
     tz |-> tz, gap |-> 1]

\* three stamped lines of this year at ascending instants (the third in
\* another zone), a line without a stamp, and a line of another unit
\* written last year
Stamp1 == Stamp(ThisYear, 1, 2, 3, 0)
Stamp2 == Stamp(ThisYear, 1, 2, 20, 0)
Stamp3 == Stamp(ThisYear, 1, 2, 21, 30)
StampLastYear == Stamp(ThisYear - 1, 12, 31, 20, 0)
SampleJournalLines ==
    { JournalLineOf(Stamp1, <<"K">>), JournalLineOf(Stamp2, <<"K">>),
      JournalLineOf(Stamp3, <<"K">>), <<"K">>,
      JournalLineOf(StampLastYear, <<"C">>) }

\* ParseTimestamp of the journal reader on the sample lines in ThisYear,
\* computed once
SampleJournalStamps ==
    [line \in SampleJournalLines |->
        ParseTimestamp(NewJournalReader(GlobPath), line, ThisYear)]

\* s.journalReader.ParseTimestamp(line)
ParseJournalTimestamp(l, line, now) ==
    IF /\ line \in SampleJournalLines /\ now = ThisYear
       /\ l.TimestampRegex = JournalTimestampFormat
       /\ l.TimestampLayout = JournalTimestampLayout
    THEN SampleJournalStamps[line]
    ELSE ParseTimestamp(l, line, now)

\* the loop of Find dropping the error of ParseTimestamp
ResultOfWithoutErr(l, line, commentFn, now) ==
    LET p == ParseJournalTimestamp(l, line, now)
    IN FindResult(line, p.ts, Comment(commentFn, line), Nil)

\* the FindResult the loop of Find appends for a matched line
ResultOf(l, line, commentFn, now) ==
    LET p == ParseJournalTimestamp(l, line, now)
    IN FindResult(line, p.ts, Comment(commentFn, line), p.err)

\* the less function of Find's sort, comparing in the wrong direction
LessResultDescending(a, b) == UnixMicroLess(b.Timestamp, a.Timestamp)

\* the less function of Find's sort.Slice
LessResult(a, b) == UnixMicroLess(a.Timestamp, b.Timestamp)

\* sort.Slice(results, less): an insertion sort on at most 12 elements
RECURSIVE SinkResult(_, _)
SinkResult(s, j) ==
    IF j > 1 /\ LessResult(s[j], s[j - 1])
    THEN SinkResult(Swap(s, j, j - 1), j - 1)
    ELSE s

RECURSIVE SortResultsFrom(_, _)
SortResultsFrom(s, i) ==
    IF i > Len(s) THEN s ELSE SortResultsFrom(SinkResult(s, i), i + 1)

\* Find without the sort, as in the K8s source
SortResultsNone(results) == results

SortResults(results) == SortResultsFrom(results, 2)

\* what Find leaves and returns: the cache, the lines FindFn matched, the
\* local results before selection, the returned results and error
FindReturn(file, matched, results, out, err) ==
    [file |-> file, matched |-> matched, results |-> results, out |-> out, err |-> err]

\* Find from the sort on: sort.Slice and SelectMatches
FindSorted(found, sorted, event) ==
    FindReturn(found.file, found.lines, sorted,
               SelectMatches(sorted, event.MatchSelector), Nil)

\* Find from the return of FindFn on: one result per matched line
FindMatched(l, found, event, now) ==
    IF found.err # Nil THEN FindReturn(found.file, <<>>, <<>>, <<>>, found.err)
    ELSE FindSorted(found,
                    SortResults([i \in 1..Len(found.lines) |->
                                    ResultOf(l, found.lines[i], event.CommentFn, now)]),
                    event)

\* Find from the return of Read on: the event's FindFn reads once more and is
\* answered from the cache
FindRead(l, f, fault, event, now, r) ==
    IF r.err # Nil THEN FindReturn(r.file, <<>>, <<>>, <<>>, r.err)
    ELSE FindMatched(l, JournalReaderFind([l EXCEPT !.file = r.file], f, fault, event.re),
                     event, now)

\* journal.Source.Find(event), the event's FindFn being s.FindByRegex(event.re)
JournalSourceFind(l, f, fault, event, now) ==
    FindRead(l, f, fault, event, now, JournalReaderRead(l, f, fault))

-----------------------------------------------------------------------------
(* The journal source over bounded journals *)

MaxLines == 3

NewEvent(c, sel, commentFn) ==
    [re |-> LineRegex(c), MatchSelector |-> sel, CommentFn |-> commentFn]

\* the events timed: the unit K with each selector and its lines as comments,
\* the unit C, and a unit that logs nothing
Events ==
    {NewEvent("K", sel, "CommentMatchedLine") :
        sel \in {EventMatchSelectorFirst, EventMatchSelectorLast,
                 EventMatchSelectorAll}}
    \cup {NewEvent("C", EventMatchSelectorAll, Nil),
          NewEvent("x", EventMatchSelectorFirst, Nil)}

\* the journals: every sequence of sample lines, and a file that is no journal
SampleJournals ==
    {Data("journal", body) : body \in SeqsUpTo(SampleJournalLines, MaxLines)}
    \cup {Data("text", <<<<"K">>>>)}

InitFind ==
    /\ cluster = NoUse
    /\ clock = ThisYear
    /\ \E data \in SampleJournals :
         fs = [n \in {LogName} |-> [openable |-> TRUE, mtime |-> Mtime(0, 100),
                                    data |-> data]]
    /\ reader = NewJournalReader(GlobPath)
    /\ call = Idle

\* the read errors a call can meet: none when the cache answers
FaultsNow == IF reader.file # NilBytes THEN {NoFault} ELSE {NoFault, FaultAfter(1)}

\* s.Find(event)
Find ==
    /\ \E event \in Events, fault \in FaultsNow :
         LET r == JournalSourceFind(reader, fs, fault, event, clock) IN
         /\ reader' = [reader EXCEPT !.file = r.file]
         /\ call' = [op |-> "Find", event |-> event, matched |-> r.matched,
                     results |-> r.results, out |-> r.out, err |-> r.err]
    /\ UNCHANGED <<fs, cluster, clock>>

\* s.journalReader.Find(re)
ReaderFind ==
    /\ \E c \in {"K", "C", "x"}, fault \in FaultsNow :
         LET r == JournalReaderFind(reader, fs, fault, LineRegex(c)) IN
         /\ reader' = [reader EXCEPT !.file = r.file]
         /\ call' = [op |-> "ReaderFind", re |-> LineRegex(c), lines |-> r.lines,
                     err |-> r.err]
    /\ UNCHANGED <<fs, cluster, clock>>

NextFind == Find \/ ReaderFind \/ ClearCache

SpecFind == InitFind /\ [][NextFind]_vars

\* the number of elements of seq equal to v
Count(seq, v) == Cardinality({i \in DOMAIN seq : seq[i] = v})

\* the lines of seq matching .*c.*, in their order in seq
Matching(seq, c) == SelectSeq(seq, LAMBDA line : \E i \in DOMAIN line : line[i] = c)

\* seq holds one result for every occurrence of a line in lines, and no other
OneResultPerLine(seq, lines) ==
    /\ Len(seq) = Len(lines)
    /\ \A i \in DOMAIN lines :
           Count([k \in DOMAIN seq |-> seq[k].Line], lines[i]) = Count(lines, lines[i])

Ascending(seq) ==
    \A i, j \in DOMAIN seq :
        i < j => ~UnixMicroLess(seq[j].Timestamp, seq[i].Timestamp)

\* the evidence the reader holds after a call that read it
Evidence == LinesOf(reader.file)

\* C4: for the journal source, Find with selector All returns one result per
\* matched line, in ascending order of timestamp, for every physical order of
\* the matched lines in the evidence; First returns the result with the
\* minimum timestamp and Last the one with the maximum.
C4_FindSortsByTimestamp ==
    (call.op = "Find" /\ call.err = Nil) =>
        LET lines == Matching(Evidence, call.event.re.contains)
            sel == call.event.MatchSelector
        IN /\ sel = EventMatchSelectorAll =>
                  (OneResultPerLine(call.out, lines) /\ Ascending(call.out))
           /\ sel = EventMatchSelectorFirst =>
                  /\ Len(call.out) = 1
                  /\ Count(lines, call.out[1].Line) >= 1
                  /\ \A r \in {call.results[i] : i \in DOMAIN call.results} :
                         ~UnixMicroLess(r.Timestamp, call.out[1].Timestamp)
           /\ sel = EventMatchSelectorLast =>
                  /\ Len(call.out) = 1
                  /\ Count(lines, call.out[1].Line) >= 1
                  /\ \A r \in {call.results[i] : i \in DOMAIN call.results} :
                         ~UnixMicroLess(call.out[1].Timestamp, r.Timestamp)

\* three stamped lines in the evidence in the order T3, T1, T2, returned in
\* the order T1, T2, T3
C4_Witness ==
    /\ call.op = "Find" /\ call.err = Nil
    /\ call.event.MatchSelector = EventMatchSelectorAll
    /\ Evidence = <<JournalLineOf(Stamp3, <<"K">>), JournalLineOf(Stamp1, <<"K">>),
                    JournalLineOf(Stamp2, <<"K">>)>>
    /\ [i \in DOMAIN call.out |-> call.out[i].Line]
         = <<JournalLineOf(Stamp1, <<"K">>), JournalLineOf(Stamp2, <<"K">>),
             JournalLineOf(Stamp3, <<"K">>)>>

\* the instant a stamp denotes
TimeOfStamp(f) ==
    Time(f.year, f.month, f.day, f.hour, f.min, f.sec,
         (f.tz \div 100) * 3600 + (f.tz % 100) * 60)

\* the sample lines with a well-formed stamp, and the stamp of each
WellStamped ==
    [line \in {JournalLineOf(st, <<"K">>) : st \in {Stamp1, Stamp2, Stamp3}} |->
        CHOOSE st \in {Stamp1, Stamp2, Stamp3} : JournalLineOf(st, <<"K">>) = line]

C7_NoMatchIsAnError ==
    /\ (call.op = "ReaderFind" /\ reader.file # NilBytes) =>
           LET lines == Matching(Evidence, call.re.contains) IN
           IF lines = <<>> THEN call.err = "NoMatch" /\ call.lines = <<>>
           ELSE call.err = Nil /\ call.lines = lines
    /\ (call.op = "Find" /\ reader.file # NilBytes) =>
           LET lines == Matching(Evidence, call.event.re.contains) IN
           IF lines = <<>>
           THEN call.err = "NoMatch" /\ call.out = <<>> /\ call.results = <<>>
           ELSE call.err = Nil /\ call.matched = lines

\* a Find for a unit with no line in an evidence that has lines of others
C7_Witness ==
    /\ call.op = "Find" /\ call.err = "NoMatch" /\ call.out = <<>>
    /\ Len(Evidence) >= 2

-----------------------------------------------------------------------------
(* k8s.go: the K8s API source *)

\* corev1 condition types and statuses
NodeReady == "Ready"
PodReady == "Ready"
PodScheduled == "PodScheduled"
ConditionTrue == "True"

\* a status condition; the transition time is in Unix seconds
Condition(type, status, unix) ==
    [Type |-> type, Status |-> status, LastTransitionTime |-> unix]

\* time.Unix(n, 0)
UnixTime(n) == [unix |-> n]

\* strconv.ParseInt(s, 10, 64) on strings too short to overflow 64 bits: an
\* optional sign, then one or more digits and nothing else
ParseInt(s) ==
    LET digits == IF s # <<>> /\ s[1] \in {"+", "-"} THEN Tail(s) ELSE s IN
    IF digits = <<>> \/ ~AllDigits(digits) THEN [ok |-> FALSE, n |-> 0]
    ELSE [ok |-> TRUE,
          n |-> IF s[1] = "-" THEN 0 - Atoi(digits) ELSE Atoi(digits)]

\* Source.ParseTimeFor
ParseTimeFor(unixSec) ==
    LET unixTS == ParseInt(unixSec) IN
    IF ~unixTS.ok THEN [ts |-> ZeroTime, err |-> "unable to parse time for K8s event"]
    ELSE [ts |-> UnixTime(unixTS.n), err |-> Nil]

FnReturn(values, err) == [values |-> values, err |-> err]

\* Source.FindNode: Nodes().Get(nodeName); c.api is "down" when the call to
\* the API fails in transport
FindNode(c) ==
    IF c.api # "ok" THEN [ok |-> FALSE, err |-> "Transport"]
    ELSE IF ~c.node.exists THEN [ok |-> FALSE, err |-> "ObjectNotFound"]
    ELSE [ok |-> TRUE, node |-> c.node]

\* Source.FindPod: Pods(ns).List(spec.nodeName = nodeName), the first item
FindPod(c) ==
    IF c.api # "ok" THEN [ok |-> FALSE, err |-> "Transport"]
    ELSE IF Len(c.pods) = 0 THEN [ok |-> FALSE, err |-> "ObjectNotFound"]
    ELSE [ok |-> TRUE, pod |-> c.pods[1]]

\* the condition FindNodeReadyTime keeps, testing the type alone
IsNodeReadyAnyStatus(condition) == condition.Type = NodeReady

\* the condition FindNodeReadyTime keeps
IsNodeReady(condition) ==
    condition.Type = NodeReady /\ condition.Status = ConditionTrue

\* lo.FilterMap(conditions, ...): the transition times of the kept conditions
RECURSIVE NodeMatches(_)
NodeMatches(conditions) ==
    IF conditions = <<>> THEN <<>>
    ELSE (IF IsNodeReady(Head(conditions))
          THEN <<Sprint(Head(conditions).LastTransitionTime)>> ELSE <<>>)
         \o NodeMatches(Tail(conditions))

\* Source.FindNodeReadyTime
FindNodeReadyTime(c) ==
    LET got == FindNode(c) IN
    IF ~got.ok THEN FnReturn(<<>>, got.err)
    ELSE LET nodeMatches == NodeMatches(got.node.conditions) IN
         IF Len(nodeMatches) = 0 THEN FnReturn(<<>>, "ConditionNotFound")
         ELSE FnReturn(nodeMatches, Nil)

\* Source.FindNodeRegisterTime
FindNodeRegisterTime(c) ==
    LET got == FindNode(c) IN
    IF ~got.ok THEN FnReturn(<<>>, got.err)
    ELSE FnReturn(<<Sprint(got.node.created)>>, Nil)

\* Source.FindPodCreationTime
FindPodCreationTime(c) ==
    LET got == FindPod(c) IN
    IF ~got.ok THEN FnReturn(<<>>, got.err)
    ELSE FnReturn(<<Sprint(got.pod.created)>>, Nil)

\* lo.Find(conditions, type): the first condition of the type
FirstOfType(conditions, type) ==
    IF \E i \in DOMAIN conditions : conditions[i].Type = type
    THEN [ok |-> TRUE,
          condition |-> conditions[CHOOSE i \in DOMAIN conditions :
                                      /\ conditions[i].Type = type
                                      /\ \A j \in 1..(i - 1) : conditions[j].Type # type]]
    ELSE [ok |-> FALSE]

\* Source.FindPodReadyTime and Source.FindPodScheduledTime
FindPodConditionTime(c, type) ==
    LET got == FindPod(c) IN
    IF ~got.ok THEN FnReturn(<<>>, got.err)
    ELSE LET found == FirstOfType(got.pod.conditions, type) IN
         IF ~found.ok THEN FnReturn(<<>>, "ConditionNotFound")
         ELSE FnReturn(<<Sprint(found.condition.LastTransitionTime)>>, Nil)

\* event.FindFn(s, nil): one of the source's match functions, or a function
\* of the event's owner that returns the values it was built with
CallFindFn(c, event) ==
    CASE event.FindFn = "FindNodeReadyTime" -> FindNodeReadyTime(c)
      [] event.FindFn = "FindNodeRegisterTime" -> FindNodeRegisterTime(c)
      [] event.FindFn = "FindPodCreationTime" -> FindPodCreationTime(c)
      [] event.FindFn = "FindPodReadyTime" -> FindPodConditionTime(c, PodReady)
      [] event.FindFn = "FindPodScheduledTime" -> FindPodConditionTime(c, PodScheduled)
      [] OTHER -> FnReturn(event.values, Nil)

K8sResultOf(k8sEvent, commentFn) ==
    LET p == ParseTimeFor(k8sEvent)
    IN FindResult(k8sEvent, p.ts, Comment(commentFn, k8sEvent), p.err)

\* the loop of Find leaving out the values that do not parse
RECURSIVE K8sResultsParsedOnly(_, _)
K8sResultsParsedOnly(k8sEvents, commentFn) ==
    IF k8sEvents = <<>> THEN <<>>
    ELSE (IF ParseTimeFor(Head(k8sEvents)).err = Nil
          THEN <<K8sResultOf(Head(k8sEvents), commentFn)>> ELSE <<>>)
         \o K8sResultsParsedOnly(Tail(k8sEvents), commentFn)

\* the loop of Find: one FindResult per value, in the order of the values
K8sResults(k8sEvents, commentFn) ==
    [i \in DOMAIN k8sEvents |-> K8sResultOf(k8sEvents[i], commentFn)]

\* k8s.Source.Find(event): the values FindFn returned, the local results
\* before selection, the returned results and error
K8sSourceFind(c, event) ==
    LET k8sEvents == CallFindFn(c, event) IN
    IF k8sEvents.err # Nil
    THEN [values |-> <<>>, fnErr |-> k8sEvents.err, results |-> <<>>, out |-> <<>>,
          err |-> k8sEvents.err]
    ELSE LET results == K8sResults(k8sEvents.values, event.CommentFn)
         IN [values |-> k8sEvents.values, fnErr |-> Nil, results |-> results,
             out |-> SelectMatches(results, event.MatchSelector), err |-> Nil]

-----------------------------------------------------------------------------
(* The K8s API source over bounded clusters *)

MaxConditions == 2
MaxValues == 2

Selectors == {EventMatchSelectorFirst, EventMatchSelectorLast, EventMatchSelectorAll}

NodeConditions ==
    { Condition(NodeReady, ConditionTrue, 12), Condition(NodeReady, ConditionTrue, 7),
      Condition(NodeReady, "False", 9), Condition("MemoryPressure", ConditionTrue, 8) }

PodConditionLists ==
    { <<>>, <<Condition(PodScheduled, ConditionTrue, 5)>>,
      <<Condition(PodScheduled, ConditionTrue, 5), Condition(PodReady, ConditionTrue, 11)>> }

Nodes ==
    {[exists |-> FALSE, created |-> 0, conditions |-> <<>>]}
    \cup [exists : {TRUE}, created : {3},
          conditions : SeqsUpTo(NodeConditions, MaxConditions)]

Pods == [created : {4}, conditions : PodConditionLists]

Clusters == [api : {"ok", "down"}, node : Nodes, pods : SeqsUpTo(Pods, 1)]

\* the values a match function of the event's owner returns
SampleValues == {<<"1", "2">>, <<"7">>, <<"x", "1">>, <<>>}

K8sEvents ==
    [FindFn : {"FindNodeReadyTime", "FindNodeRegisterTime", "FindPodCreationTime",
               "FindPodReadyTime", "FindPodScheduledTime"},
     values : {<<>>}, MatchSelector : Selectors, CommentFn : {Nil}]
    \cup [FindFn : {"custom"}, values : SeqsUpTo(SampleValues, MaxValues),
          MatchSelector : Selectors, CommentFn : {"CommentMatchedLine"}]

\* the source holds no state: a behaviour is one cluster, one event, and the
\* Find of that event against that cluster
InitK8s ==
    /\ fs = NoUse /\ reader = NoUse /\ clock = NoUse
    /\ cluster \in Clusters
    /\ \E event \in K8sEvents : call = [op |-> "event", event |-> event]

\* s.Find(event)
K8sFind ==
    /\ call.op = "event"
    /\ LET r == K8sSourceFind(cluster, call.event) IN
       call' = [op |-> "K8sFind", event |-> call.event, values |-> r.values,
                fnErr |-> r.fnErr, results |-> r.results, out |-> r.out,
                err |-> r.err]
    /\ UNCHANGED <<fs, reader, cluster, clock>>

NextK8s == K8sFind

SpecK8s == InitK8s /\ [][NextK8s]_vars

\* the Unix time the sample values denote
ValueUnix(v) ==
    CASE v = <<"1", "2">> -> 12
      [] v = <<"7">> -> 7
      [] OTHER -> 0 - 1

\* C8: when the event's match function succeeds, the cluster-state source's
\* Find never fails: before selection it holds exactly one result per value
\* the match function returned, in the order returned (no sorting by
\* timestamp), and a value that is no Unix time has the failure in that
\* result's Err while all other results are still produced.
C8_K8sFindKeepsEveryValue ==
    (call.op = "K8sFind" /\ call.fnErr = Nil) =>
        /\ call.err = Nil
        /\ Len(call.results) = Len(call.values)
        /\ \A i \in DOMAIN call.values :
               LET r == call.results[i] IN
               /\ r.Line = call.values[i]
               /\ IF call.event.FindFn = "custom" /\ ValueUnix(r.Line) < 0
                  THEN r.Err # Nil /\ r.Timestamp = ZeroTime
                  ELSE r.Err = Nil
               /\ (call.event.FindFn = "custom" /\ ValueUnix(r.Line) >= 0) =>
                      r.Timestamp = UnixTime(ValueUnix(r.Line))
        /\ call.out = SelectMatches(call.results, call.event.MatchSelector)

\* the values "12", "x1" in that order: two results in that order, the second
\* with the failure
C8_Witness ==
    /\ call.op = "K8sFind" /\ call.err = Nil
    /\ call.values = << <<"1", "2">>, <<"x", "1">> >>
    /\ call.event.MatchSelector = EventMatchSelectorAll
    /\ Len(call.out) = 2
    /\ call.out[1].Err = Nil /\ call.out[2].Err # Nil

\* C9: with the API reachable, a Find for node readiness fails with a
\* condition-not-found error when the node exists but has no condition of
\* type Ready with status True, and with an object-not-found error when the
\* node does not exist; a pod lookup fails with an object-not-found error
\* when there is no pod on this node; in each case Find returns the error
\* and no results.
C9_NotFoundErrors ==
    (call.op = "K8sFind" /\ cluster.api = "ok") =>
        /\ (call.event.FindFn = "FindNodeReadyTime" /\ ~cluster.node.exists) =>
               (call.err = "ObjectNotFound" /\ call.out = <<>>)
        /\ (/\ call.event.FindFn = "FindNodeReadyTime" /\ cluster.node.exists
            /\ ~\E i \in DOMAIN cluster.node.conditions :
                   /\ cluster.node.conditions[i].Type = "Ready"
                   /\ cluster.node.conditions[i].Status = "True") =>
               (call.err = "ConditionNotFound" /\ call.out = <<>>)
        /\ (/\ call.event.FindFn \in {"FindPodCreationTime", "FindPodReadyTime",
                                     "FindPodScheduledTime"}
            /\ cluster.pods = <<>>) =>
               (call.err = "ObjectNotFound" /\ call.out = <<>>)

\* a node whose only Ready condition has status False
C9_Witness ==
    /\ call.op = "K8sFind" /\ call.event.FindFn = "FindNodeReadyTime"
    /\ cluster.api = "ok" /\ cluster.node.exists
    /\ \E i \in DOMAIN cluster.node.conditions :
           cluster.node.conditions[i] = Condition(NodeReady, "False", 9)
    /\ call.err = "ConditionNotFound" /\ call.out = <<>>

-----------------------------------------------------------------------------
(* String of the journal source and of the K8s source *)

\* k8s.Name and journal.Name
K8sName == <<"K", "8", "s">>
JournalName == <<"J", "o", "u", "r", "n", "a", "l">>

\* String returning the name of the source
JournalSourceStringName(l) == JournalName

\* journal.Source.String(): s.journalReader.Path
JournalSourceString(l) == l.Path

\* k8s.Source.String()
K8sSourceString == K8sName

\* the journal directories: each file absent, or a journal written in some
\* second, readable or not
JournalFiles ==
    [openable : BOOLEAN, mtime : {Mtime(sec, 100) : sec \in 0..MaxSec},
     data : {Data("journal", <<<<"K">>>>)}]

JournalDirectories ==
    UNION {[present -> JournalFiles] : present \in SUBSET {LogName, RotatedName}}

\* journal.New(path) with a pattern or with the name of one file, and k8s.New
InitString ==
    /\ cluster = NoUse /\ clock = NoUse
    /\ fs \in JournalDirectories
    /\ reader \in {NewJournalReader(GlobPath), NewJournalReader(LogName)}
    /\ call = Idle

\* s.String() of either source
String ==
    /\ \E source \in {"Journal", "K8s"} :
         call' = [op |-> "String", source |-> source,
                  ret |-> IF source = "Journal" THEN JournalSourceString(reader)
                          ELSE K8sSourceString]
    /\ UNCHANGED <<fs, reader, cluster, clock>>

NextString == String \/ Read \/ ClearCache

SpecString == InitString /\ [][NextString]_vars

\* the file a Read of the journal reader resolves in the present directory
ResolvedNow == resolveNewestLogFile(fs, reader.Path)

\* C11 as stated: String() of a log-backed source returns the resolved path
\* of the evidence it reads, for a glob-backed source the concrete file the
\* rotation resolver chooses, and String() of the K8s source returns the
\* source name.
C11_StringIsResolvedPath ==
    call.op = "String" =>
        IF call.source = "Journal"
        THEN Len(Glob(fs, reader.Path)) > 0 => call.ret = ResolvedNow
        ELSE call.ret = K8sName

\* C11: String() of the journal source returns the Path the source was
\* constructed with, which is the resolved path exactly when that Path is the
\* name of an existing file and never when it is a pattern; String() of the
\* K8s source returns the source name.
C11_StringIsConfiguredPath ==
    call.op = "String" =>
        IF call.source = "Journal"
        THEN /\ call.ret = reader.Path
             /\ call.ret \in {GlobPath, LogName}
             /\ (call.ret = ResolvedNow) <=> (reader.Path \in Exists(fs))
             /\ reader.Path = GlobPath => call.ret # ResolvedNow
        ELSE call.ret = K8sName

\* String() of a journal source over a pattern with two matches, after a Read
\* cached the file it resolved
C11_Witness ==
    /\ call.op = "String" /\ call.source = "Journal"
    /\ reader.Path = GlobPath
    /\ reader.file # NilBytes
    /\ Len(Glob(fs, reader.Path)) = 2
    /\ call.ret # ResolvedNow

-----------------------------------------------------------------------------
(* The glob-backed readers over directories that are rotated *)

\* the content a reader of that kind reads: text for LogReader, a journal
\* for JournalReader
RotationData(kind) ==
    {Data(IF kind = "journal" THEN "journal" ELSE "text", <<<<c>>>>) : c \in {"K", "C"}}

\* every directory over the live and the rotated file, each absent or present
\* with some modification time and content, readable or not
RotationDirectories(kind) ==
    UNION {[present -> [openable : BOOLEAN, mtime : Mtimes, data : RotationData(kind)]] :
           present \in SUBSET {LogName, RotatedName}}

\* a LogReader and a JournalReader over the pattern
InitRotation ==
    /\ cluster = NoUse /\ clock = NoUse
    /\ reader \in {NewLogReader(GlobPath, TRUE), NewJournalReader(GlobPath)}
    /\ fs \in RotationDirectories(reader.kind)
    /\ call = Idle

NextRotation == Read \/ ClearCache \/ Rotate

SpecRotation == InitRotation /\ [][NextRotation]_vars

\* the cache is bound to the Read that populated it: no step but ClearCache
\* changes a populated cache, a Read on a populated cache resolves nothing,
\* and a Read that populates the cache stores the content of the file it
\* resolved
CacheBoundToRead ==
    /\ (reader.file # NilBytes /\ call'.op # "ClearCache") => reader'.file = reader.file
    /\ (reader.file # NilBytes /\ call'.op = "Read") => (call'.hit /\ call'.path = <<>>)
    /\ (reader.file = NilBytes /\ reader'.file # NilBytes) =>
           /\ call'.op = "Read" /\ ~call'.hit
           /\ call'.path \in Exists(fs')
           /\ GlobMatch(reader.Path, call'.path)
           /\ reader'.file = Content(reader, fs', call'.path)

\* the file a populating Read resolved is the oldest match by modification
\* time for LogReader and the newest for JournalReader
ResolvedOldestNewest ==
    (call.op = "Read" /\ ~call.hit /\ call.err = Nil) =>
        \A n \in {m \in Exists(fs) : GlobMatch(reader.Path, m)} :
            IF reader.kind = "log"
            THEN ~MtimeBefore(fs[n].mtime, fs[call.path].mtime)
            ELSE ~MtimeBefore(fs[call.path].mtime, fs[n].mtime)

\* C12: a populated cache of a glob-backed reader holds the content of the
\* file that the Read which populated it resolved, the oldest glob match by
\* modification time for LogReader and the newest for JournalReader; path
\* resolution runs only in a Read that starts with an empty cache, so later
\* rotations never change the cached content until ClearCache.
C12_CacheHoldsOldestNewest ==
    [][CacheBoundToRead /\ ResolvedOldestNewest']_vars

-----------------------------------------------------------------------------
(* The journal source: results whose timestamp failed, in the sorted order *)

\* the matched lines of the last Find whose stamp is missing or is not parsed
FailedLines == {i \in DOMAIN call.matched : call.matched[i] \notin DOMAIN WellStamped}

-----------------------------------------------------------------------------
(* SelectMatches with a selector that is none of the three constants *)

KnownSelectors ==
    {EventMatchSelectorFirst, EventMatchSelectorLast, EventMatchSelectorAll}

\* C14: SelectMatches called with a selector string that is none of "first",
\* "last" or "all" (the empty string and a differently capitalised name
\* included) returns the whole input unchanged, exactly as selector All does;
\* it never drops a result.
C14_UnknownSelectorIsAll ==
    (call.op = "SelectMatches" /\ call.sel \notin KnownSelectors) =>
        /\ call.out = call.results
        /\ call.out = SelectMatches(call.results, EventMatchSelectorAll)
        /\ Len(call.out) = Len(call.results)

\* the selector "First" over two or more results, one carrying an error:
\* all of them are returned
C14_Witness ==
    /\ call.op = "SelectMatches" /\ call.sel = "First"
    /\ Len(call.results) >= 2
    /\ call.results[1] # call.results[Len(call.results)]
    /\ \E i \in DOMAIN call.results : call.results[i].Err # Nil
    /\ call.out = call.results

====
